---- MODULE Spec2Model ----
(***************************************************************************)
(* Model of carbonix_aws_libs.athena_handler.AthenaHandler: the            *)
(* asynchronous query lifecycle (submit, poll, fetch) and the accessors    *)
(* layered on it, driven by a single-threaded caller against a remote      *)
(* query engine whose executions advance on their own (Spec, ExtractSpec); *)
(* and of carbonix_aws_libs.aurora_handler.AuroraHandler: the lazy         *)
(* connection and the statement accessors (AuroraSpec).                    *)
(***************************************************************************)
EXTENDS Integers, Sequences, FiniteSets, TLC

(* ------------------------------ bounds --------------------------------- *)

\* executions the remote engine accepts in one behaviour
MaxExec == 2
\* value at which the per-call counters of polls and sleeps saturate
MaxPolls == 2
\* data rows (after the header row) of a fetched result set
MaxData == 1
\* entries of a partition list handed to add_partitions
MaxParts == 2

(* --------------------------- value domains ----------------------------- *)

\* Python None for an execution id (ids issued by the engine are 1, 2, ...)
NoneId == 0

Terminal == {"SUCCEEDED", "FAILED", "CANCELLED"}

NonTerminal == {"QUEUED", "RUNNING"}

\* outcome of one boto3 client call: a response, a botocore ClientError (the
\* service answered with an error), or any other exception of the SDK
\* (BotoCoreError: no endpoint connection, no credentials, ...)
Outcomes == {"ok", "ClientError", "BotoCoreError"}

Methods ==
    {"check_loguid_exists", "get_boot_time", "add_partitions", "get_fc_firmware",
     "get_unique_instance", "get_flight_data", "get_value_stats"}

\* return values of the accessors, tagged by Python type
RetNone == [t |-> "None"]

RetBool(b) == [t |-> "bool", v |-> b]

RetStr(c) == [t |-> "str", v |-> c]

RetList(s) == [t |-> "list", v |-> s]

RetDict(d) == [t |-> "dict", v |-> d]

\* the outcome of a piece of code: a returned value or a raised exception
Returns(x) == [raised |-> "no", value |-> x]

Raises(e) == [raised |-> e, value |-> RetNone]

(* ------------------------------ strings -------------------------------- *)

\* a Python str is a sequence of one-character strings
LowerChar(c) ==
    CASE c = "B" -> "b"
      [] c = "I" -> "i"
      [] c = "N" -> "n"
      [] c = "T" -> "t"
      [] c = "L" -> "l"
      [] c = "O" -> "o"
      [] c = "G" -> "g"
      [] OTHER -> c

lower(s) == [i \in 1..Len(s) |-> LowerChar(s[i])]

FileTypes ==
    { <<".", "B", "I", "N">>, <<".", "T", "L", "O", "G">>,
      <<"B", "i", "n">>, <<".", "t", "l", "o", "g">>,
      <<".", "c", "s", "v">>, << >> }

(* ----------------------------- result sets ----------------------------- *)

\* the VarCharValue of the cell in column c (from 0) of row r (from 0); num
\* tells whether the text parses as a float
Cell(r, c, num) == [VarCharValue |-> [row |-> r, col |-> c, num |-> num]]

\* a row of n cells, or a row without the 'Data' key
DataRow(r, n, num) ==
    [hasData |-> TRUE, Data |-> [c \in 1..n |-> Cell(r, c - 1, num)]]

NoDataRow == [hasData |-> FALSE, Data |-> << >>]

\* rows too short for every accessor, one cell short of the firmware column,
\* just long enough for it, and long enough for all accessors
RowLens == {0, 4, 5, 11}

RowChoices(r) ==
    {NoDataRow} \cup {DataRow(r, n, TRUE) : n \in RowLens}
    \cup {DataRow(r, n, FALSE) : n \in {m \in RowLens : m > 4}}

RECURSIVE DataRows(_)
\* the sequences of n rows that follow a header row
DataRows(n) ==
    IF n = 0 THEN { << >> }
    ELSE {Append(s, row) : s \in DataRows(n - 1), row \in RowChoices(n)}

HeaderRow == DataRow(0, 11, FALSE)

RowSeqs ==
    { << >> } \cup
    UNION {{<<HeaderRow>> \o s : s \in DataRows(n)} : n \in 0..MaxData}

\* what get_query_results hands back: None, or the response dictionary
NoResults ==
    [isNone |-> TRUE, hasResultSet |-> FALSE, hasRows |-> FALSE, Rows |-> << >>]

Response(rows) ==
    [isNone |-> FALSE, hasResultSet |-> TRUE, hasRows |-> TRUE, Rows |-> rows]

Responses ==
    { [isNone |-> FALSE, hasResultSet |-> FALSE, hasRows |-> FALSE, Rows |-> << >>],
      [isNone |-> FALSE, hasResultSet |-> TRUE, hasRows |-> FALSE, Rows |-> << >>] }
    \cup {Response(rows) : rows \in RowSeqs}

\* results and 'ResultSet' in results and 'Rows' in results['ResultSet']
HasRows(results) ==
    ~results.isNone /\ results.hasResultSet /\ results.hasRows

(* --------------------------- the primitives ---------------------------- *)

\* AthenaHandler.execute_query: one start_query_execution call; id is the
\* QueryExecutionId of the response
execute_query(outcome, id) ==
    CASE outcome = "ok" -> Returns(id)
      [] outcome = "ClientError" -> Returns(NoneId)
      [] OTHER -> Raises(outcome)

\* get_query_status reporting a failed poll as a failed query
get_query_status_failed_on_error(outcome, state) ==
    CASE outcome = "ok" -> Returns(state)
      [] outcome = "ClientError" -> Returns("FAILED")
      [] OTHER -> Raises(outcome)

\* AthenaHandler.get_query_status: one get_query_execution call; state is the
\* Status.State of the response
get_query_status(outcome, state) ==
    CASE outcome = "ok" -> Returns(state)
      [] outcome = "ClientError" -> Returns("None")
      [] OTHER -> Raises(outcome)

\* AthenaHandler.get_query_results: one get_query_results call
get_query_results(outcome, response) ==
    CASE outcome = "ok" -> Returns(response)
      [] outcome = "ClientError" -> Returns(NoResults)
      [] OTHER -> Raises(outcome)

\* the loop leaving on every status that is not QUEUED or RUNNING
wait_leaves_on_unknown(status) ==
    IF status \notin {"QUEUED", "RUNNING"}
    THEN [done |-> TRUE, value |-> (status = "SUCCEEDED")]
    ELSE [done |-> FALSE, value |-> FALSE]

\* the loop giving up, with False, on a poll that returned None
wait_gives_up_on_none(status) ==
    IF status \in {"SUCCEEDED", "FAILED", "CANCELLED", "None"}
    THEN [done |-> TRUE, value |-> (status = "SUCCEEDED")]
    ELSE [done |-> FALSE, value |-> FALSE]

\* one turn of the loop of wait_for_query_to_complete on the status just
\* polled: leave the loop with a boolean, or go on to the sleep
wait_for_query_to_complete(status) ==
    IF status \in {"SUCCEEDED", "FAILED", "CANCELLED"}
    THEN [done |-> TRUE, value |-> (status = "SUCCEEDED")]
    ELSE [done |-> FALSE, value |-> FALSE]

(* ------------------- what the accessors do with rows ------------------- *)

\* check_loguid_exists counting the header row as a match
check_loguid_exists_counts_header(results) ==
    IF HasRows(results)
    THEN Returns(RetBool(Len(results.Rows) > 0))
    ELSE Returns(RetBool(FALSE))

\* check_loguid_exists, after get_query_results
check_loguid_exists(results) ==
    IF HasRows(results)
    THEN Returns(RetBool(Len(results.Rows) > 1))
    ELSE Returns(RetBool(FALSE))

\* get_boot_time, after get_query_results: rows[1]['Data'][1] unguarded
get_boot_time(results) ==
    IF HasRows(results)
    THEN LET rows == results.Rows IN
         IF Len(rows) < 2 THEN Raises("IndexError")
         ELSE IF ~rows[2].hasData THEN Raises("KeyError")
         ELSE IF Len(rows[2].Data) < 2 THEN Raises("IndexError")
         ELSE Returns(RetStr(rows[2].Data[2].VarCharValue))
    ELSE Returns(RetNone)

\* get_fc_firmware reading the column before the firmware string
get_fc_firmware_wrong_column(results) ==
    IF HasRows(results)
    THEN LET rows == results.Rows IN
         IF Len(rows) > 1 /\ rows[2].hasData /\ Len(rows[2].Data) > 3
         THEN Returns(RetStr(rows[2].Data[4].VarCharValue))
         ELSE Returns(RetNone)
    ELSE Returns(RetNone)

\* get_fc_firmware, after get_query_results
get_fc_firmware(results) ==
    IF HasRows(results)
    THEN LET rows == results.Rows IN
         IF Len(rows) > 1 /\ rows[2].hasData /\ Len(rows[2].Data) > 4
         THEN Returns(RetStr(rows[2].Data[5].VarCharValue))
         ELSE Returns(RetNone)
    ELSE Returns(RetNone)

RECURSIVE Instances(_, _)
\* the loop of get_unique_instance over rows[from..]
Instances(rows, from) ==
    IF from > Len(rows) THEN << >>
    ELSE (IF rows[from].hasData /\ Len(rows[from].Data) > 0
          THEN <<rows[from].Data[1].VarCharValue>>
          ELSE << >>) \o Instances(rows, from + 1)

\* get_unique_instance iterating over rows instead of rows[1:]
get_unique_instance_from_header(results) ==
    IF HasRows(results)
    THEN Returns(RetList(Instances(results.Rows, 1)))
    ELSE Returns(RetNone)

\* get_unique_instance, after get_query_results
get_unique_instance(results) ==
    IF HasRows(results)
    THEN Returns(RetList(Instances(results.Rows, 2)))
    ELSE Returns(RetNone)

FlightKeys ==
    <<"TakeoffTimestamp", "TakeoffTimestampStr", "TakeoffLat", "TakeoffLong",
      "Pilot", "GSO", "LandingTimestamp", "LandingTimestampStr", "LandingLat",
      "LandingLong", "TotalFlightTime">>

\* get_flight_data, after get_query_results
get_flight_data(results) ==
    IF HasRows(results)
    THEN LET rows == results.Rows IN
         IF Len(rows) > 1 /\ rows[2].hasData /\ Len(rows[2].Data) > 10
         THEN Returns(RetDict({<<FlightKeys[i], rows[2].Data[i].VarCharValue>> :
                               i \in 1..11}))
         ELSE Returns(RetNone)
    ELSE Returns(RetNone)

\* the exception one row of the loop of get_value_stats raises, or "no"
StatsRowError(row) ==
    IF ~row.hasData THEN "KeyError"
    ELSE IF Len(row.Data) < 5 THEN "IndexError"
    ELSE IF ~row.Data[5].VarCharValue.num THEN "ValueError"
    ELSE IF Len(row.Data) < 7 THEN "IndexError"
    ELSE "no"

RECURSIVE Stats(_, _, _)
\* the loop of get_value_stats over rows[from..], stats the dictionary so far
\* (a set of <<keyname, entry>> pairs, one per keyname)
Stats(rows, from, stats) ==
    IF from > Len(rows) THEN Returns(RetDict(stats))
    ELSE LET row == rows[from] IN
         IF StatsRowError(row) # "no" THEN Raises(StatsRowError(row))
         ELSE LET keyname == row.Data[3].VarCharValue
                  entry == [min |-> row.Data[5].VarCharValue,
                            max |-> row.Data[6].VarCharValue,
                            avg |-> row.Data[7].VarCharValue]
              IN Stats(rows, from + 1,
                       {p \in stats : p[1] # keyname} \cup {<<keyname, entry>>})

\* get_value_stats, after get_query_results
get_value_stats(results) ==
    IF HasRows(results) /\ Len(results.Rows) > 1
    THEN Stats(results.Rows, 2, {})
    ELSE Returns(RetNone)

\* the accessor's use of the fetched results
Extract(m, results) ==
    CASE m = "check_loguid_exists" -> check_loguid_exists(results)
      [] m = "get_boot_time" -> get_boot_time(results)
      [] m = "get_fc_firmware" -> get_fc_firmware(results)
      [] m = "get_unique_instance" -> get_unique_instance(results)
      [] m = "get_flight_data" -> get_flight_data(results)
      [] m = "get_value_stats" -> get_value_stats(results)

\* the accessor's negative result: False for the two that return bool
Negative(m) ==
    IF m \in {"check_loguid_exists", "add_partitions"}
    THEN RetBool(FALSE) ELSE RetNone

\* add_partitions returns query_completed itself and never fetches
FetchesResults(m) == m # "add_partitions"

(* ------------------------- building the query -------------------------- *)

NoQuery == [kind |-> "None", partitions |-> << >>]

Query(kind) == [kind |-> kind, partitions |-> << >>]

\* get_boot_time comparing file_type whatever its case
get_boot_time_query_ignores_case(file_type) ==
    IF lower(file_type) = <<".", "b", "i", "n">> THEN Query("boot_bin")
    ELSE IF lower(file_type) = <<".", "t", "l", "o", "g">> THEN Query("boot_tlog")
    ELSE NoQuery

\* the if/elif/else on file_type of get_boot_time
get_boot_time_query(file_type) ==
    IF file_type = <<".", "B", "I", "N">> THEN Query("boot_bin")
    ELSE IF file_type = <<".", "T", "L", "O", "G">> THEN Query("boot_tlog")
    ELSE NoQuery

\* the if/elif/else on file_type.lower() of get_flight_data
get_flight_data_query(file_type) ==
    IF lower(file_type) \in {<<".", "b", "i", "n">>, <<"b", "i", "n">>}
    THEN Query("flight_bin")
    ELSE IF lower(file_type) \in {<<".", "t", "l", "o", "g">>, <<"t", "l", "o", "g">>}
    THEN Query("flight_tlog")
    ELSE NoQuery

(* ----------------------- get_add_partition_query ----------------------- *)

\* str.replace(old, new) for one-character old and new
replace(s, old, new) == [i \in 1..Len(s) |-> IF s[i] = old THEN new ELSE s[i]]

RECURSIVE lstrip(_, _)
lstrip(s, ch) ==
    IF Len(s) > 0 /\ s[1] = ch THEN lstrip(Tail(s), ch) ELSE s

RECURSIVE rstrip(_, _)
rstrip(s, ch) ==
    IF Len(s) > 0 /\ s[Len(s)] = ch
    THEN rstrip(SubSeq(s, 1, Len(s) - 1), ch) ELSE s

RECURSIVE split(_, _)
\* str.split(sep): the pieces between the separators, empty pieces included
split(s, sep) ==
    IF \E i \in 1..Len(s) : s[i] = sep
    THEN LET i == CHOOSE k \in 1..Len(s) :
                      s[k] = sep /\ \A j \in 1..(k - 1) : s[j] # sep
         IN <<SubSeq(s, 1, i - 1)>> \o split(SubSeq(s, i + 1, Len(s)), sep)
    ELSE <<s>>

\* folder.replace("\\", "/").lstrip("/").rstrip("\n")
Normalize(folder) == rstrip(lstrip(replace(folder, "\\", "/"), "/"), "\n")

\* does the body of the try raise IndexError on this (normalized) folder
RaisesIndexError(folder) ==
    LET parts == split(folder, "/") IN
    \/ Len(parts) < 4
    \/ \E k \in 1..4 : Len(split(parts[k], "=")) < 2

\* the PARTITION clause of one well-formed folder
Partition(folder) ==
    LET parts == split(folder, "/") IN
    [loguid |-> split(parts[1], "=")[2],
     messagetype |-> split(parts[2], "=")[2],
     instance |-> split(parts[3], "=")[2],
     keyname |-> split(parts[4], "=")[2],
     location |-> folder]

RECURSIVE Partitions_stops_at_malformed(_, _)
\* the for loop leaving at the first malformed entry instead of continuing
Partitions_stops_at_malformed(partition_list, from) ==
    IF from > Len(partition_list) THEN << >>
    ELSE LET folder == Normalize(partition_list[from]) IN
         IF RaisesIndexError(folder) THEN << >>
         ELSE <<Partition(folder)>>
              \o Partitions_stops_at_malformed(partition_list, from + 1)

RECURSIVE Partitions(_, _)
\* the for loop of get_add_partition_query over partition_list[from..]
Partitions(partition_list, from) ==
    IF from > Len(partition_list) THEN << >>
    ELSE LET folder == Normalize(partition_list[from]) IN
         (IF RaisesIndexError(folder) THEN << >> ELSE <<Partition(folder)>>)
         \o Partitions(partition_list, from + 1)

\* AthenaHandler.get_add_partition_query: None when no entry is well formed
get_add_partition_query(partition_list) ==
    LET partitions == Partitions(partition_list, 1) IN
    IF partitions = << >> THEN NoQuery
    ELSE [kind |-> "alter", partitions |-> partitions]

\* partition paths handed in: well formed, well formed with backslashes and
\* a trailing newline, too few segments, a segment without '='
FolderChoices ==
    { <<"l", "=", "1", "/", "m", "=", "2", "/", "i", "=", "3", "/", "k", "=", "4">>,
      <<"\\", "l", "=", "5", "\\", "m", "=", "6", "\\", "i", "=", "7", "\\",
        "k", "=", "8", "\n">>,
      <<"l", "=", "1", "/", "m", "=", "2", "/", "i", "=", "3">>,
      <<"l", "=", "1", "/", "m", "/", "i", "=", "3", "/", "k", "=", "4">> }

RECURSIVE PartitionLists(_)
PartitionLists(n) ==
    IF n = 0 THEN { << >> }
    ELSE PartitionLists(n - 1) \cup
         {Append(l, f) : l \in {x \in PartitionLists(n - 1) : Len(x) = n - 1},
                         f \in FolderChoices}

(* ------------------------------ the call ------------------------------- *)

NoArgs == << >>

\* the arguments a caller may pass to accessor m (those the control flow
\* depends on: file_type, partition_list)
ArgsOf(m) ==
    CASE m \in {"get_boot_time", "get_flight_data"} -> FileTypes
      [] m = "add_partitions" -> PartitionLists(MaxParts)
      [] OTHER -> {NoArgs}

\* the query the accessor builds before it submits, NoQuery when it returns
\* early instead
BuildQuery(m, a) ==
    CASE m = "get_boot_time" -> get_boot_time_query(a)
      [] m = "get_flight_data" -> get_flight_data_query(a)
      [] m = "add_partitions" -> get_add_partition_query(a)
      [] OTHER -> Query(m)

\* an accessor that does not test the id and waits on None
AfterSubmit_no_test(m, id) == [pc |-> "poll", ret |-> RetNone]

\* `if not query_execution_id: return <negative>`, else on to the wait
AfterSubmit(m, id) ==
    IF id = NoneId THEN [pc |-> "returned", ret |-> Negative(m)]
    ELSE [pc |-> "poll", ret |-> RetNone]

\* an accessor that fetches the results whatever query_completed is
AfterWait_always_fetches(m, query_completed) ==
    IF ~FetchesResults(m) THEN [pc |-> "returned", ret |-> RetBool(query_completed)]
    ELSE [pc |-> "fetch", ret |-> RetNone]

\* an accessor that submits its query again when the execution did not succeed
AfterWait_resubmits(m, query_completed) ==
    IF query_completed /\ ~FetchesResults(m) THEN [pc |-> "returned", ret |-> RetBool(TRUE)]
    ELSE IF query_completed THEN [pc |-> "fetch", ret |-> RetNone]
    ELSE [pc |-> "submit", ret |-> RetNone]

\* add_partitions returning True as soon as the wait has ended
AfterWait_reports_completion(m, query_completed) ==
    IF ~FetchesResults(m) THEN [pc |-> "returned", ret |-> RetBool(TRUE)]
    ELSE IF query_completed THEN [pc |-> "fetch", ret |-> RetNone]
    ELSE [pc |-> "returned", ret |-> Negative(m)]

\* what the accessor does with query_completed: add_partitions returns it,
\* the others fetch the results when it is true and fall through to their
\* negative result when it is false
AfterWait(m, query_completed) ==
    IF ~FetchesResults(m) THEN [pc |-> "returned", ret |-> RetBool(query_completed)]
    ELSE IF query_completed THEN [pc |-> "fetch", ret |-> RetNone]
    ELSE [pc |-> "returned", ret |-> Negative(m)]

(* ------------------------------- state --------------------------------- *)

VARIABLES
    pc,        \* where the caller's thread is: "idle", or inside an accessor at
               \* "submit", "poll", "sleep", "fetch", or leaving it "returned"/"raised"
    method,    \* the accessor being executed
    args,      \* its file_type or partition_list
    query,     \* the query it built, NoQuery before that
    qid,       \* its local query_execution_id
    status,    \* the last value get_query_status returned in this call
    waitRet,   \* what wait_for_query_to_complete returned in this call
    results,   \* what get_query_results returned in this call
    ret,       \* the value the accessor returns
    exc,       \* the exception that escapes the accessor, "no" if none
    exec,      \* the remote engine: the state of each execution id
    remote,    \* the last call made on the boto3 client and its outcome
    submits,   \* start_query_execution calls made in this call
    polls,     \* get_query_execution calls made in this call (saturating)
    sleeps,    \* time.sleep calls made in this call (saturating)
    fetches,   \* get_query_results calls made in this call
    ahead      \* get_query_execution calls minus time.sleep calls made in
               \* this call (exact: the loop keeps it at 0 or 1)

athenaVars ==
    <<pc, method, args, query, qid, status, waitRet, results, ret, exc, exec,
      remote, submits, polls, sleeps, fetches, ahead>>

VARIABLES
    phase,       \* "new" before AuroraHandler.__init__ has run, then "ready"
    connection,  \* self.connection: "None" or "open" (a connection object)
    init_state,  \* self.init_state
    leaked,      \* connections opened by the handler, no longer referenced by
                 \* it and not closed
    secrets,     \* get_secret_value calls made since construction
    reconnects,  \* reconnect() calls made since construction
    call         \* the last AuroraHandler operation: its name, inputs, result
                 \* and the database calls it made

auroraVars == <<phase, connection, init_state, leaked, secrets, reconnects, call>>

\* no operation of the handler has been called
NoOp == [op |-> "none"]

VARIABLES
    src_obj,    \* the object source_key is in the source bucket
    dst_obj,    \* a copy of it is in the unprocessed destination bucket
    dir_files,  \* the files of the local directory that are in the bucket
    s3call      \* the last S3Handler operation: its inputs, result and the
                \* SDK calls it made

s3Vars == <<src_obj, dst_obj, dir_files, s3call>>

VARIABLES
    crawler,    \* the state of each Glue crawler
    gluecall    \* the last GlueCrawlerHandler operation, its result and the
                \* state it observed

glueVars == <<crawler, gluecall>>

vars == <<athenaVars, auroraVars, s3Vars, glueVars>>

\* the crawler the handler was constructed for, and another one
Crawlers == {"own", "other"}

CrawlerStates == {"READY", "RUNNING", "STOPPING"}

\* the handlers' surroundings before any S3Handler / GlueCrawlerHandler
\* operation: the object is in the source bucket only
StoreInit ==
    /\ src_obj = TRUE
    /\ dst_obj = FALSE
    /\ dir_files = {}
    /\ s3call = NoOp
    /\ crawler = [c \in Crawlers |-> "READY"]
    /\ gluecall = NoOp

Ids == 1..MaxExec

Created == {i \in Ids : exec[i] # "absent"}

Sat(n) == IF n < MaxPolls THEN n + 1 ELSE n

NoCall == [call |-> "none", outcome |-> "none"]

\* the locals and counters of an accessor call before its first statement
Fresh ==
    /\ qid' = NoneId
    /\ status' = "NoPoll"
    /\ waitRet' = "pending"
    /\ results' = NoResults
    /\ exc' = "no"
    /\ remote' = NoCall
    /\ submits' = 0
    /\ polls' = 0
    /\ sleeps' = 0
    /\ fetches' = 0
    /\ ahead' = 0

Init ==
    /\ pc = "idle"
    /\ method = "none"
    /\ args = NoArgs
    /\ qid = NoneId
    /\ status = "NoPoll"
    /\ waitRet = "pending"
    /\ results = NoResults
    /\ ret = RetNone
    /\ exc = "no"
    /\ exec = [i \in Ids |-> "absent"]
    /\ query = NoQuery
    /\ phase = "new"
    /\ connection = "None"
    /\ init_state = FALSE
    /\ leaked = 0
    /\ secrets = 0
    /\ reconnects = 0
    /\ call = NoOp
    /\ StoreInit
    /\ remote = NoCall
    /\ submits = 0
    /\ polls = 0
    /\ sleeps = 0
    /\ fetches = 0
    /\ ahead = 0

(* ------------------------------ actions -------------------------------- *)

\* the caller invokes accessor m: the query is built, or the accessor
\* returns early on an unrecognised file_type / an empty partition query
Call(m, a) ==
    /\ pc = "idle"
    /\ method' = m
    /\ args' = a
    /\ Fresh
    /\ query' = BuildQuery(m, a)
    /\ pc' = IF BuildQuery(m, a) = NoQuery THEN "returned" ELSE "submit"
    /\ ret' = IF BuildQuery(m, a) = NoQuery THEN Negative(m) ELSE RetNone
    /\ UNCHANGED <<exec, auroraVars, s3Vars, glueVars>>

\* execute_query and the accessor's test of the id it returns
Submit(outcome) ==
    /\ pc = "submit"
    /\ outcome = "ok" => Created # Ids
    /\ LET id == Cardinality(Created) + 1
           r == execute_query(outcome, id)
       IN /\ remote' = [call |-> "start_query_execution", outcome |-> outcome]
          /\ submits' = submits + 1
          /\ exec' = IF outcome = "ok" THEN [exec EXCEPT ![id] = "QUEUED"] ELSE exec
          /\ IF r.raised # "no"
             THEN /\ pc' = "raised"
                  /\ exc' = r.raised
                  /\ UNCHANGED <<qid, ret>>
             ELSE /\ qid' = r.value
                  /\ pc' = AfterSubmit(method, r.value).pc
                  /\ ret' = AfterSubmit(method, r.value).ret
                  /\ exc' = exc
    /\ UNCHANGED <<auroraVars, s3Vars, glueVars, query, ahead, method, args, status, waitRet, results, polls, sleeps,
                   fetches>>

\* one turn of the loop of wait_for_query_to_complete: get_query_status and
\* the test of the status; on leaving the loop, the accessor's next statement
Poll(outcome) ==
    /\ pc = "poll"
    /\ outcome = "ok" => qid \in Created
    /\ LET state == IF qid \in Created THEN exec[qid] ELSE "absent"
           r == get_query_status(outcome, state)
           w == wait_for_query_to_complete(r.value)
       IN /\ remote' = [call |-> "get_query_execution", outcome |-> outcome]
          /\ polls' = Sat(polls)
          /\ ahead' = ahead + 1
          /\ IF r.raised # "no"
             THEN /\ pc' = "raised"
                  /\ exc' = r.raised
                  /\ UNCHANGED <<status, waitRet, ret>>
             ELSE /\ status' = r.value
                  /\ exc' = exc
                  /\ IF w.done
                     THEN /\ waitRet' = IF w.value THEN "True" ELSE "False"
                          /\ pc' = AfterWait(method, w.value).pc
                          /\ ret' = AfterWait(method, w.value).ret
                     ELSE /\ pc' = "sleep"
                          /\ UNCHANGED <<waitRet, ret>>
    /\ UNCHANGED <<auroraVars, s3Vars, glueVars, query, method, args, qid, results, exec, submits, sleeps, fetches>>

\* a loop that sleeps a second time before it polls again
Sleep_twice ==
    /\ pc = "sleep"
    /\ ahead >= 0
    /\ pc' = IF ahead = 1 THEN "sleep" ELSE "poll"
    /\ sleeps' = Sat(sleeps)
    /\ ahead' = ahead - 1
    /\ UNCHANGED <<auroraVars, s3Vars, glueVars, query, method, args, qid, status, waitRet, results, ret, exc, exec,
                   remote, submits, polls, fetches>>

\* time.sleep(delay), then back to the top of the loop
Sleep ==
    /\ pc = "sleep"
    /\ pc' = "poll"
    /\ sleeps' = Sat(sleeps)
    /\ ahead' = ahead - 1
    /\ UNCHANGED <<auroraVars, s3Vars, glueVars, query, method, args, qid, status, waitRet, results, ret, exc, exec,
                   remote, submits, polls, fetches>>

\* get_query_results and the accessor's extraction from the rows; the engine
\* answers with a result set only for an execution that SUCCEEDED
Fetch(outcome, response) ==
    /\ pc = "fetch"
    /\ outcome = "ok" => (qid \in Created /\ exec[qid] = "SUCCEEDED")
    /\ outcome # "ok" => response = NoResults
    /\ LET r == get_query_results(outcome, response)
           e == Extract(method, r.value)
       IN /\ remote' = [call |-> "get_query_results", outcome |-> outcome]
          /\ fetches' = fetches + 1
          /\ IF r.raised # "no"
             THEN /\ pc' = "raised"
                  /\ exc' = r.raised
                  /\ UNCHANGED <<results, ret>>
             ELSE /\ results' = r.value
                  /\ pc' = IF e.raised # "no" THEN "raised" ELSE "returned"
                  /\ exc' = e.raised
                  /\ ret' = e.value
    /\ UNCHANGED <<auroraVars, s3Vars, glueVars, query, ahead, method, args, qid, status, waitRet, exec, submits, polls,
                   sleeps>>

\* control is back with the caller (which may have caught the exception)
Return ==
    /\ pc \in {"returned", "raised"}
    /\ pc' = "idle"
    /\ method' = "none"
    /\ args' = NoArgs
    /\ query' = NoQuery
    /\ Fresh
    /\ ret' = RetNone
    /\ UNCHANGED <<exec, auroraVars, s3Vars, glueVars>>

\* the engine moves an execution on; a terminal state never changes
RemoteAdvance(i, s) ==
    /\ exec[i] \in NonTerminal
    /\ s \in (IF exec[i] = "QUEUED" THEN {"RUNNING"} ELSE {}) \cup Terminal
    /\ exec' = [exec EXCEPT ![i] = s]
    /\ UNCHANGED <<auroraVars, s3Vars, glueVars, query, ahead, pc, method, args, qid, status, waitRet, results, ret, exc,
                   remote, submits, polls, sleeps, fetches>>

Next ==
    \/ \E m \in Methods : \E a \in ArgsOf(m) : Call(m, a)
    \/ \E outcome \in Outcomes : Submit(outcome)
    \/ \E outcome \in Outcomes : Poll(outcome)
    \/ Sleep
    \/ \E outcome \in Outcomes : \E response \in Responses \cup {NoResults} :
           Fetch(outcome, response)
    \/ Return
    \/ \E i \in Ids : \E s \in NonTerminal \cup Terminal : RemoteAdvance(i, s)

Spec == Init /\ [][Next]_vars

\* the scheduling of one caller thread: a sleep ends, the fetch that follows
\* the wait is made, and a poll that is attempted again and again succeeds
\* at some time
FairSpec ==
    /\ Spec
    /\ WF_vars(Sleep)
    /\ SF_vars(Poll("ok"))
    /\ WF_vars(\E outcome \in Outcomes : \E response \in Responses \cup {NoResults} :
                   Fetch(outcome, response))

(* ------------------- extraction from longer result sets ----------------- *)

\* data rows after the header in a result set
MaxRows == 2

\* the result sets get_query_results may hand to a row-iterating accessor
WideResponses ==
    {Response(<< >>)} \cup
    UNION {{Response(<<HeaderRow>> \o s) : s \in DataRows(n)} : n \in 0..MaxRows}

RowIterating == {"get_unique_instance", "get_value_stats"}

\* a row-iterating accessor whose wait_for_query_to_complete has just
\* returned True for execution 1
ExtractInit ==
    /\ pc = "fetch"
    /\ method \in RowIterating
    /\ args = NoArgs
    /\ query = BuildQuery(method, NoArgs)
    /\ qid = 1
    /\ status = "SUCCEEDED"
    /\ waitRet = "True"
    /\ results = NoResults
    /\ ret = RetNone
    /\ exc = "no"
    /\ exec = [i \in Ids |-> IF i = 1 THEN "SUCCEEDED" ELSE "absent"]
    /\ remote = [call |-> "get_query_execution", outcome |-> "ok"]
    /\ submits = 1
    /\ polls = 1
    /\ sleeps = 0
    /\ fetches = 0
    /\ ahead = 1
    /\ phase = "new"
    /\ connection = "None"
    /\ init_state = FALSE
    /\ leaked = 0
    /\ secrets = 0
    /\ reconnects = 0
    /\ call = NoOp
    /\ StoreInit

ExtractNext ==
    \E outcome \in Outcomes : \E response \in WideResponses \cup {NoResults} :
        Fetch(outcome, response)

ExtractSpec == ExtractInit /\ [][ExtractNext]_vars

(* ---------------------------- AuroraHandler ---------------------------- *)

\* connections the handler may have dropped without closing, in one behaviour
MaxLeaked == 2
\* get_secret_value calls in one behaviour
MaxSecrets == 3

\* outcome of pymysql.connect, of commit and of rollback
DbOutcomes == {"ok", "error"}

\* outcome of a statement: connection.cursor() raises, cursor.execute (or the
\* fetch) raises, or the rows come back
StmtOutcomes == {"ok", "cursor_error", "execute_error"}

\* what execute_query returns: None, or the tuple fetchone / fetchall gave
NoneResult == [isNone |-> TRUE, data |-> << >>]

Result(t) == [isNone |-> FALSE, data |-> t]

\* Python truth of a result: neither None nor an empty tuple
Truthy(result) == ~result.isNone /\ result.data # << >>

\* cursor.fetchone(): no row (None), a COUNT(1) row, a one-column row, a row
\* of four columns
FetchOneResults ==
    {NoneResult, Result(<<0>>), Result(<<2>>), Result(<<5, 6, 7, 8>>)}

\* cursor.fetchall(): an empty tuple or the rows
FetchAllResults ==
    {Result(<< >>), Result(<< <<1, 2>> >>), Result(<< <<1, 2>>, <<3, 4>> >>)}

RetVal(x) == [t |-> "value", v |-> x]

\* cursor.lastrowid after the INSERT INTO FlightTable
LastRowId == 1

\* the handler's fields and the database calls made so far in one operation
Handler ==
    [connection |-> connection, leaked |-> leaked, secrets |-> secrets,
     connects |-> 0, stmts |-> 0, commits |-> 0, committed |-> 0,
     rollbacks |-> 0, closes |-> 0]

\* the handler after a piece of code, the exception it raised ("no" if none)
\* and the value it returned
Done(h, raised, value) == [h |-> h, raised |-> raised, value |-> value]

\* AuroraHandler.retrieve_db_credentials: one get_secret_value call, every
\* exception of which is caught
retrieve_db_credentials(h) == [h EXCEPT !.secrets = @ + 1]

\* connect fetching the secret again before it opens the connection
connect_fetches_secret(h, co) ==
    IF co = "ok"
    THEN Done([h EXCEPT !.secrets = @ + 1, !.connects = @ + 1,
                        !.leaked = @ + (IF h.connection = "open" THEN 1 ELSE 0),
                        !.connection = "open"], "no", TRUE)
    ELSE Done([h EXCEPT !.secrets = @ + 1, !.connects = @ + 1], "no", FALSE)

\* AuroraHandler.connect: self.connection is overwritten by the new
\* connection, whatever it held; on an exception it is left as it was
connect(h, co) ==
    IF co = "ok"
    THEN Done([h EXCEPT !.connects = @ + 1,
                        !.leaked = @ + (IF h.connection = "open" THEN 1 ELSE 0),
                        !.connection = "open"], "no", TRUE)
    ELSE Done([h EXCEPT !.connects = @ + 1], "no", FALSE)

\* AuroraHandler.close_connection: the connection is closed and forgotten
\* (a MySQLError of close() is caught, the finally sets None)
close_connection(h) ==
    IF h.connection # "None"
    THEN [h EXCEPT !.connection = "None", !.closes = @ + 1]
    ELSE h

\* AuroraHandler.reconnect
reconnect(h, co) ==
    connect(retrieve_db_credentials(close_connection(h)), co)

\* an opening test that calls connect whether or not a connection is present
EnsureConnection_always_connects(h, co) == connect(h, co)

\* `if not self.connection and not self.connect()`: value FALSE when the
\* caller has to give up
EnsureConnection(h, co) ==
    IF h.connection = "None" THEN connect(h, co) ELSE Done(h, "no", TRUE)

\* execute_query running the statement a second time after it failed
aurora_execute_query_retries(h, co, so, result) ==
    LET c == EnsureConnection(h, co) IN
    IF ~c.value THEN Done(c.h, "no", NoneResult)
    ELSE IF so = "cursor_error" THEN Done(c.h, "no", NoneResult)
    ELSE IF so = "execute_error"
    THEN Done([c.h EXCEPT !.stmts = @ + 2], "no", NoneResult)
    ELSE Done([c.h EXCEPT !.stmts = @ + 1], "no", result)

\* AuroraHandler.execute_query
aurora_execute_query(h, co, so, result) ==
    LET c == EnsureConnection(h, co) IN
    IF ~c.value THEN Done(c.h, "no", NoneResult)
    ELSE IF so = "cursor_error" THEN Done(c.h, "no", NoneResult)
    ELSE IF so = "execute_error"
    THEN Done([c.h EXCEPT !.stmts = @ + 1], "no", NoneResult)
    ELSE Done([c.h EXCEPT !.stmts = @ + 1], "no", result)

\* AuroraHandler.execute_insert_or_update: the rollback of the except
\* block is not itself guarded
execute_insert_or_update(h, co, so, cmo, rbo) ==
    LET c == EnsureConnection(h, co) IN
    IF ~c.value THEN Done(c.h, "no", RetBool(FALSE))
    ELSE LET e == IF so = "cursor_error" THEN c.h
                  ELSE [c.h EXCEPT !.stmts = @ + 1]
             m == IF so = "ok" THEN [e EXCEPT !.commits = @ + 1] ELSE e
         IN IF so = "ok" /\ cmo = "ok"
            THEN Done([m EXCEPT !.committed = @ + 1], "no", RetBool(TRUE))
            ELSE IF rbo = "ok"
            THEN Done([m EXCEPT !.rollbacks = @ + 1], "no", RetBool(FALSE))
            ELSE Done([m EXCEPT !.rollbacks = @ + 1], "MySQLError", RetNone)

\* AuroraHandler.get_uid_by_column_str
get_uid_by_column_str(h, co, so, result) ==
    LET r == aurora_execute_query(h, co, so, result) IN
    IF Truthy(r.value) THEN Done(r.h, "no", RetVal(r.value.data[1]))
    ELSE Done(r.h, "no", RetNone)

\* log_exists returning the truth of the fetched row instead of its count
log_exists_truthy(h, co, so, result) ==
    LET r == aurora_execute_query(h, co, so, result) IN
    Done(r.h, "no", RetBool(Truthy(r.value)))

\* AuroraHandler.log_exists: result[0] > 0 if result else False
log_exists(h, co, so, result) ==
    LET r == aurora_execute_query(h, co, so, result) IN
    IF Truthy(r.value) THEN Done(r.h, "no", RetBool(r.value.data[1] > 0))
    ELSE Done(r.h, "no", RetBool(FALSE))

\* insert_to_flighttable closing the connection on the success path only
insert_to_flighttable_open_on_error(h, co, so, cmo) ==
    LET c == IF h.connection = "None" THEN connect(h, co).h ELSE h IN
    IF c.connection = "None" THEN Done(c, "no", RetBool(FALSE))
    ELSE LET e == IF so = "cursor_error" THEN c
                  ELSE [c EXCEPT !.stmts = @ + 1]
             m == IF so = "ok" THEN [e EXCEPT !.commits = @ + 1] ELSE e
         IN IF so = "ok" /\ cmo = "ok"
            THEN Done(close_connection([m EXCEPT !.committed = @ + 1]), "no",
                      RetVal(LastRowId))
            ELSE Done(m, "no", RetNone)

\* AuroraHandler.insert_to_flighttable: the try / except / finally around
\* the INSERT; a KeyError of flight_data counts as cursor_error
insert_to_flighttable(h, co, so, cmo) ==
    LET c == IF h.connection = "None" THEN connect(h, co).h ELSE h IN
    IF c.connection = "None" THEN Done(c, "no", RetBool(FALSE))
    ELSE LET e == IF so = "cursor_error" THEN c
                  ELSE [c EXCEPT !.stmts = @ + 1]
             m == IF so = "ok" THEN [e EXCEPT !.commits = @ + 1] ELSE e
         IN IF so = "ok" /\ cmo = "ok"
            THEN Done(close_connection([m EXCEPT !.committed = @ + 1]), "no",
                      RetVal(LastRowId))
            ELSE Done(close_connection(m), "no", RetNone)

\* AuroraHandler.get_aircraft_details_by_log_uid: three lookups, then
\* aircraft_details[3] and aircraft_details.update(...) on the fetched tuple
get_aircraft_details_by_log_uid(h, co, s1, r1, s2, r2, s3, r3) ==
    LET q1 == aurora_execute_query(h, co, s1, r1) IN
    IF ~Truthy(q1.value) THEN Done(q1.h, "no", RetNone)
    ELSE LET q2 == aurora_execute_query(q1.h, co, s2, r2) IN
         IF ~Truthy(q2.value) THEN Done(q2.h, "no", RetNone)
         ELSE IF Len(q2.value.data) < 4 THEN Done(q2.h, "IndexError", RetNone)
         ELSE LET q3 == aurora_execute_query(q2.h, co, s3, r3) IN
              IF ~Truthy(q3.value) THEN Done(q3.h, "no", RetNone)
              ELSE Done(q3.h, "AttributeError", RetNone)

\* AuroraHandler.get_aircraft_row_by_cubeid: the lookup, then the same query
\* executed again for cursor.description, all inside try / except Exception
get_aircraft_row_by_cubeid(h, co, s1, r1, s2) ==
    LET q1 == aurora_execute_query(h, co, s1, r1) IN
    IF ~Truthy(q1.value) THEN Done(q1.h, "no", RetNone)
    ELSE IF s2 = "cursor_error" THEN Done(q1.h, "no", RetNone)
    ELSE IF s2 = "execute_error"
    THEN Done([q1.h EXCEPT !.stmts = @ + 1], "no", RetNone)
    ELSE Done([q1.h EXCEPT !.stmts = @ + 1], "no",
              RetDict({<<i, q1.value.data[i]>> : i \in 1..Len(q1.value.data)}))

\* the accessors that wrap execute_insert_or_update and nothing else
Writers ==
    {"execute_insert_or_update", "insert_summary", "insert_error", "insert_log",
     "update_telemetry_info", "add_flight_file_record"}

\* the read accessors made of one execute_query inside try / except Exception
FetchAllReaders ==
    {"get_all_logs_by_aircraft_uid", "get_all_flights_by_aircraft_uid",
     "get_all_summary_for_flight_uid", "get_all_errors_for_flight_uid"}

FetchOneReaders ==
    {"get_aircraft_uid_from_cubeid", "get_aircraft_name_from_cubeid"}

\* one of those read accessors; get_all_logs_by_aircraft_uid reads
\* self.cursor, which no code sets: the AttributeError is caught
Reader(op, h, co, so, result) ==
    LET r == aurora_execute_query(h, co, so, result) IN
    IF ~Truthy(r.value) THEN Done(r.h, "no", RetNone)
    ELSE IF op = "get_all_logs_by_aircraft_uid" THEN Done(r.h, "no", RetNone)
    ELSE IF op \in FetchOneReaders THEN Done(r.h, "no", RetVal(r.value.data[1]))
    ELSE Done(r.h, "no", RetVal(r.value.data))

\* the record kept of an operation: the connection it found, its inputs
\* and what Done reports
Rec(op, inputs, d) ==
    [op |-> op, before |-> connection, inputs |-> inputs,
     ret |-> d.value, exc |-> d.raised,
     connects |-> d.h.connects, stmts |-> d.h.stmts, commits |-> d.h.commits,
     committed |-> d.h.committed, rollbacks |-> d.h.rollbacks,
     closes |-> d.h.closes]

\* the handler's fields after an operation
Finish(op, inputs, d) ==
    /\ d.h.leaked <= MaxLeaked
    /\ d.h.secrets <= MaxSecrets
    /\ connection' = d.h.connection
    /\ leaked' = d.h.leaked
    /\ secrets' = d.h.secrets
    /\ call' = Rec(op, inputs, d)
    /\ UNCHANGED <<athenaVars, s3Vars, glueVars>>

\* an operation on a constructed handler other than reconnect
Op(op, inputs, d) ==
    /\ phase = "ready"
    /\ Finish(op, inputs, d)
    /\ UNCHANGED <<phase, init_state, reconnects>>

\* AuroraHandler.__init__
Construct(co) ==
    /\ phase = "new"
    /\ phase' = "ready"
    /\ LET d == connect(retrieve_db_credentials(Handler), co) IN
       /\ init_state' = d.value
       /\ Finish("__init__", [co |-> co], d)
    /\ UNCHANGED reconnects

Connect(co) == Op("connect", [co |-> co], connect(Handler, co))

Reconnect(co) ==
    /\ phase = "ready"
    /\ reconnects' = reconnects + 1
    /\ Finish("reconnect", [co |-> co], reconnect(Handler, co))
    /\ UNCHANGED <<phase, init_state>>

CloseConnection ==
    Op("close_connection", [co |-> "none"],
       Done(close_connection(Handler), "no", RetNone))

ExecuteQuery(co, so, result) ==
    Op("execute_query", [co |-> co, so |-> so, result |-> result],
       aurora_execute_query(Handler, co, so, result))

Write(op, co, so, cmo, rbo) ==
    Op(op, [co |-> co, so |-> so, cmo |-> cmo, rbo |-> rbo],
       execute_insert_or_update(Handler, co, so, cmo, rbo))

GetUidByColumnStr(co, so, result) ==
    Op("get_uid_by_column_str", [co |-> co, so |-> so, result |-> result],
       get_uid_by_column_str(Handler, co, so, result))

LogExists(co, so, result) ==
    Op("log_exists", [co |-> co, so |-> so, result |-> result],
       log_exists(Handler, co, so, result))

InsertToFlighttable(co, so, cmo) ==
    Op("insert_to_flighttable", [co |-> co, so |-> so, cmo |-> cmo],
       insert_to_flighttable(Handler, co, so, cmo))

GetAircraftDetailsByLogUid(co, s1, r1, s2, r2, s3, r3) ==
    Op("get_aircraft_details_by_log_uid",
       [co |-> co, s1 |-> s1, r1 |-> r1, s2 |-> s2, r2 |-> r2, s3 |-> s3,
        r3 |-> r3],
       get_aircraft_details_by_log_uid(Handler, co, s1, r1, s2, r2, s3, r3))

GetAircraftRowByCubeid(co, s1, r1, s2) ==
    Op("get_aircraft_row_by_cubeid", [co |-> co, s1 |-> s1, r1 |-> r1, s2 |-> s2],
       get_aircraft_row_by_cubeid(Handler, co, s1, r1, s2))

Read(op, co, so, result) ==
    Op(op, [co |-> co, so |-> so, result |-> result],
       Reader(op, Handler, co, so, result))

\* the runtime finalizes a connection object the handler no longer refers to
Collect ==
    /\ leaked > 0
    /\ leaked' = leaked - 1
    /\ UNCHANGED <<athenaVars, s3Vars, glueVars, phase, connection, init_state,
                   secrets, reconnects, call>>

\* the value of an input the code never looks at
Unused == "unused"

\* pymysql.connect is reached by an operation only when self.connection is None
ConnectChoices == IF connection = "None" THEN DbOutcomes ELSE {Unused}

\* past `if not self.connection and not self.connect()`
Connected(co) == connection = "open" \/ co = "ok"

\* a statement is reached only with a connection
StmtChoices(reached) == IF reached THEN StmtOutcomes ELSE {Unused}

\* the rows are fetched only when cursor.execute did not raise
ResultChoices(so, rs) == IF so = "ok" THEN rs ELSE {NoneResult}

\* commit follows a successful execute; rollback follows a failure
CommitChoices(so) == IF so = "ok" THEN DbOutcomes ELSE {Unused}

RollbackChoices(so, cmo) ==
    IF so \in {"cursor_error", "execute_error"} \/ cmo = "error"
    THEN DbOutcomes ELSE {Unused}

\* `if result:` after a lookup
Found(so, result) == so = "ok" /\ Truthy(result)

AuroraNext ==
    \/ \E co \in DbOutcomes : Construct(co)
    \/ \E co \in DbOutcomes : Connect(co)
    \/ \E co \in DbOutcomes : Reconnect(co)
    \/ CloseConnection
    \/ \E co \in ConnectChoices : \E so \in StmtChoices(Connected(co)) :
           \E result \in ResultChoices(so, FetchOneResults) :
               ExecuteQuery(co, so, result)
    \/ \E op \in Writers : \E co \in ConnectChoices :
           \E so \in StmtChoices(Connected(co)) : \E cmo \in CommitChoices(so) :
               \E rbo \in RollbackChoices(so, cmo) : Write(op, co, so, cmo, rbo)
    \/ \E co \in ConnectChoices : \E so \in StmtChoices(Connected(co)) :
           \E result \in ResultChoices(so, FetchOneResults) :
               GetUidByColumnStr(co, so, result)
    \/ \E co \in ConnectChoices : \E so \in StmtChoices(Connected(co)) :
           \E result \in ResultChoices(so, FetchOneResults) :
               LogExists(co, so, result)
    \/ \E co \in ConnectChoices : \E so \in StmtChoices(Connected(co)) :
           \E cmo \in CommitChoices(so) : InsertToFlighttable(co, so, cmo)
    \/ \E co \in ConnectChoices : \E s1 \in StmtChoices(Connected(co)) :
           \E r1 \in ResultChoices(s1, FetchOneResults) :
               \E s2 \in StmtChoices(Found(s1, r1)) :
                   \E r2 \in ResultChoices(s2, FetchOneResults) :
                       \E s3 \in StmtChoices(Found(s2, r2) /\ Len(r2.data) >= 4) :
                           \E r3 \in ResultChoices(s3, FetchOneResults) :
                               GetAircraftDetailsByLogUid(co, s1, r1, s2, r2,
                                                          s3, r3)
    \/ \E co \in ConnectChoices : \E s1 \in StmtChoices(Connected(co)) :
           \E r1 \in ResultChoices(s1, FetchOneResults) :
               \E s2 \in StmtChoices(Found(s1, r1)) :
                   GetAircraftRowByCubeid(co, s1, r1, s2)
    \/ \E op \in FetchOneReaders : \E co \in ConnectChoices :
           \E so \in StmtChoices(Connected(co)) :
               \E result \in ResultChoices(so, FetchOneResults) :
                   Read(op, co, so, result)
    \/ \E op \in FetchAllReaders : \E co \in ConnectChoices :
           \E so \in StmtChoices(Connected(co)) :
               \E result \in ResultChoices(so, FetchAllResults) :
                   Read(op, co, so, result)
    \/ Collect

AuroraSpec == Init /\ [][AuroraNext]_vars

(* ------------------------------ S3Handler ------------------------------ *)

\* files under the local directory handed to upload_directory_s3
MaxFiles == 2

\* outcome of one request the S3 SDK makes: success, a ClientError with code
\* 404, a ClientError with another code, NoCredentialsError (nothing is
\* sent), ReadTimeoutError (the request is carried out, the response is lost)
S3Outcomes ==
    {"ok", "404", "ClientError", "NoCredentialsError", "ReadTimeoutError"}

\* the request was carried out by S3
Applied(outcome) == outcome \in {"ok", "ReadTimeoutError"}

\* what a method did: the exception that left it, the value it returned and
\* the S3 requests it made, in order
Sdk(raised, value, trace) == [raised |-> raised, value |-> value, trace |-> trace]

\* response.get('Metadata', {})
Metadata == RetDict({})

\* S3Handler.get_s3_file_metadata
get_s3_file_metadata(outcome) ==
    IF outcome = "ok" THEN Sdk("no", Metadata, <<"head_object">>)
    ELSE Sdk("no", RetNone, <<"head_object">>)

\* S3Handler.copy_file_s3_to_s3
copy_file_s3_to_s3(outcome) ==
    Sdk("no", RetBool(outcome = "ok"), <<"copy_object">>)

\* S3Handler.download_file_s3
download_file_s3(outcome) ==
    Sdk("no", RetBool(outcome = "ok"), <<"download_file">>)

\* S3Handler.upload_file_s3
upload_file_s3(outcome) ==
    Sdk("no", RetBool(outcome = "ok"), <<"upload_file">>)

\* S3Handler.delete_file_s3
delete_file_s3(outcome) ==
    Sdk("no", RetBool(outcome = "ok"), <<"delete_object">>)

\* the inner try of check_s3_item_exists: `raise False` raises TypeError
head_object_check(outcome) ==
    IF outcome = "ok" THEN Returns(RetBool(TRUE))
    ELSE IF outcome = "404" THEN Returns(RetBool(FALSE))
    ELSE IF outcome = "ClientError" THEN Raises("TypeError")
    ELSE Raises(outcome)

\* the folder branch: any(...) over bucket.objects.filter(Prefix, MaxKeys=1)
objects_filter_check(outcome, found) ==
    IF outcome = "ok" THEN Returns(RetBool(found)) ELSE Raises(outcome)

\* check_s3_item_exists whose outer handler catches botocore errors only
check_s3_item_exists_narrow_except(is_file, outcome, found) ==
    LET r == IF is_file THEN head_object_check(outcome)
             ELSE objects_filter_check(outcome, found)
        trace == IF is_file THEN <<"head_object">> ELSE <<"list_objects">>
    IN IF r.raised = "TypeError" THEN Sdk("TypeError", RetNone, trace)
       ELSE IF r.raised # "no" THEN Sdk("no", RetBool(FALSE), trace)
       ELSE Sdk("no", r.value, trace)

\* S3Handler.check_s3_item_exists: the outer `except Exception` returns False
check_s3_item_exists(is_file, outcome, found) ==
    LET r == IF is_file THEN head_object_check(outcome)
             ELSE objects_filter_check(outcome, found)
        trace == IF is_file THEN <<"head_object">> ELSE <<"list_objects">>
    IN IF r.raised # "no" THEN Sdk("no", RetBool(FALSE), trace)
       ELSE Sdk("no", r.value, trace)

\* S3Handler.list_s3_files
list_s3_files(outcome, keys) ==
    IF outcome = "ok" THEN Sdk("no", RetList(keys), <<"list_objects">>)
    ELSE Sdk("no", RetList(<< >>), <<"list_objects">>)

\* upload_unprocessed_s3 deleting the source whatever the copy returned
upload_unprocessed_s3_always_deletes(co, do) ==
    LET c == copy_file_s3_to_s3(co)
        d == delete_file_s3(do)
    IN Sdk("no", RetBool(c.value.v /\ d.value.v), c.trace \o d.trace)

\* S3Handler.upload_unprocessed_s3
upload_unprocessed_s3(co, do) ==
    LET c == copy_file_s3_to_s3(co) IN
    IF c.value.v
    THEN LET d == delete_file_s3(do) IN Sdk("no", d.value, c.trace \o d.trace)
    ELSE Sdk("no", RetBool(FALSE), c.trace)

RECURSIVE UploadLoop_continues(_, _)
\* the loop going on with the next file after a failed upload
UploadLoop_continues(outs, from) ==
    IF from > Len(outs) THEN Sdk("no", RetBool(TRUE), << >>)
    ELSE LET rest == UploadLoop_continues(outs, from + 1) IN
         Sdk("no", RetBool(outs[from] = "ok" /\ rest.value.v),
             <<"upload_file">> \o rest.trace)

RECURSIVE UploadLoop(_, _)
\* the loops of upload_directory_s3 over the files outs[from..] of the walk,
\* outs[i] the outcome of the upload of file i
UploadLoop(outs, from) ==
    IF from > Len(outs) THEN Sdk("no", RetBool(TRUE), << >>)
    ELSE IF outs[from] = "ok"
    THEN LET rest == UploadLoop(outs, from + 1) IN
         Sdk(rest.raised, rest.value, <<"upload_file">> \o rest.trace)
    ELSE Sdk("no", RetBool(FALSE), <<"upload_file">>)

\* S3Handler.upload_directory_s3
upload_directory_s3(outs) == UploadLoop(outs, 1)

\* the record kept of an S3Handler operation
S3Rec(op, inputs, d) ==
    [op |-> op, inputs |-> inputs, src_before |-> src_obj,
     dst_before |-> dst_obj, files_before |-> dir_files,
     ret |-> d.value, exc |-> d.raised, trace |-> d.trace]

\* S3 answers a request for the source object according to what it holds:
\* 200 needs the object, 404 its absence
Answers(outcome) ==
    /\ outcome = "ok" => src_obj
    /\ outcome = "404" => ~src_obj

S3Op(op, inputs, d) ==
    /\ s3call' = S3Rec(op, inputs, d)
    /\ UNCHANGED <<athenaVars, auroraVars, glueVars>>

GetS3FileMetadata(outcome) ==
    /\ Answers(outcome)
    /\ S3Op("get_s3_file_metadata", [outcome |-> outcome],
            get_s3_file_metadata(outcome))
    /\ UNCHANGED <<src_obj, dst_obj, dir_files>>

\* a copy of the source object into the destination bucket
CopyFileS3ToS3(outcome) ==
    /\ Answers(outcome)
    /\ Applied(outcome) => src_obj
    /\ S3Op("copy_file_s3_to_s3", [outcome |-> outcome],
            copy_file_s3_to_s3(outcome))
    /\ dst_obj' = (dst_obj \/ Applied(outcome))
    /\ UNCHANGED <<src_obj, dir_files>>

DownloadFileS3(outcome) ==
    /\ Answers(outcome)
    /\ S3Op("download_file_s3", [outcome |-> outcome], download_file_s3(outcome))
    /\ UNCHANGED <<src_obj, dst_obj, dir_files>>

\* an upload of a local file to the source key
UploadFileS3(outcome) ==
    /\ outcome # "404"
    /\ S3Op("upload_file_s3", [outcome |-> outcome], upload_file_s3(outcome))
    /\ src_obj' = (src_obj \/ Applied(outcome))
    /\ UNCHANGED <<dst_obj, dir_files>>

\* the keys delete_file_s3 is called on: the source object, its copy, or
\* file i of the uploaded directory
DeleteTargets ==
    {<<"source", 0>>, <<"unprocessed", 0>>}
    \cup {<<"uploads", i>> : i \in 1..MaxFiles}

DeleteFileS3(target, outcome) ==
    /\ outcome # "404"
    /\ S3Op("delete_file_s3", [outcome |-> outcome, target |-> target],
            delete_file_s3(outcome))
    /\ src_obj' = (src_obj /\ ~(Applied(outcome) /\ target[1] = "source"))
    /\ dst_obj' = (dst_obj /\ ~(Applied(outcome) /\ target[1] = "unprocessed"))
    /\ dir_files' = IF Applied(outcome) /\ target[1] = "uploads"
                    THEN dir_files \ {target[2]} ELSE dir_files

\* is_file: item_name does not end with '/'; found: the listing under the
\* prefix holds a key
CheckS3ItemExists(is_file, outcome, found) ==
    /\ is_file => Answers(outcome)
    /\ ~is_file => outcome # "404"
    /\ (is_file \/ outcome # "ok") => ~found
    /\ S3Op("check_s3_item_exists",
            [outcome |-> outcome, is_file |-> is_file, found |-> found],
            check_s3_item_exists(is_file, outcome, found))
    /\ UNCHANGED <<src_obj, dst_obj, dir_files>>

ListS3Files(outcome) ==
    /\ outcome # "404"
    /\ S3Op("list_s3_files", [outcome |-> outcome],
            list_s3_files(outcome, IF src_obj THEN <<"source_key">> ELSE << >>))
    /\ UNCHANGED <<src_obj, dst_obj, dir_files>>

\* the copy is made when S3 carried it out, the delete likewise, and the
\* delete is requested only when the method reached it
UploadUnprocessedS3(co, do) ==
    LET d == upload_unprocessed_s3(co, do)
        deleted == Len(d.trace) = 2 /\ Applied(do)
    IN /\ Answers(co)
       /\ Applied(co) => src_obj
       /\ do # "404"
       /\ S3Op("upload_unprocessed_s3", [co |-> co, do |-> do], d)
       /\ dst_obj' = (dst_obj \/ Applied(co))
       /\ src_obj' = (src_obj /\ ~deleted)
       /\ UNCHANGED dir_files

\* the outcomes of the uploads of a walk over n files: those after the first
\* failed upload are not reached
RECURSIVE WalkOutcomes(_)
WalkOutcomes(n) ==
    IF n = 0 THEN { << >> }
    ELSE {Append(outs, o) : outs \in {w \in WalkOutcomes(n - 1) :
                                          \A i \in 1..(n - 1) : w[i] = "ok"},
                            o \in S3Outcomes \ {"404"}}
         \cup {Append(outs, Unused) :
                   outs \in {w \in WalkOutcomes(n - 1) :
                                 \E i \in 1..(n - 1) : w[i] # "ok"}}

UploadDirectoryS3(outs) ==
    LET d == upload_directory_s3(outs) IN
    /\ S3Op("upload_directory_s3", [outs |-> outs], d)
    /\ dir_files' = dir_files \cup {i \in 1..Len(d.trace) : Applied(outs[i])}
    /\ UNCHANGED <<src_obj, dst_obj>>

S3Next ==
    \/ \E outcome \in S3Outcomes : GetS3FileMetadata(outcome)
    \/ \E outcome \in S3Outcomes : CopyFileS3ToS3(outcome)
    \/ \E outcome \in S3Outcomes : DownloadFileS3(outcome)
    \/ \E outcome \in S3Outcomes : UploadFileS3(outcome)
    \/ \E target \in DeleteTargets : \E outcome \in S3Outcomes :
           DeleteFileS3(target, outcome)
    \/ \E is_file, found \in BOOLEAN : \E outcome \in S3Outcomes :
           CheckS3ItemExists(is_file, outcome, found)
    \/ \E outcome \in S3Outcomes : ListS3Files(outcome)
    \/ \E co \in S3Outcomes :
           \E do \in (IF co = "ok" THEN S3Outcomes ELSE {Unused}) :
               UploadUnprocessedS3(co, do)
    \/ \E n \in 0..MaxFiles : \E outs \in WalkOutcomes(n) :
           UploadDirectoryS3(outs)

S3Spec == Init /\ [][S3Next]_vars

(* -------------------------- GlueCrawlerHandler -------------------------- *)

\* GlueCrawlerHandler.start_crawler
start_crawler(outcome) ==
    CASE outcome = "ok" -> Returns(RetDict({}))
      [] outcome = "ClientError" -> Returns(RetNone)
      [] OTHER -> Raises(outcome)

\* GlueCrawlerHandler.get_crawler_status: one get_crawler call; state is
\* response['Crawler']['State']
get_crawler_status(outcome, state) ==
    CASE outcome = "ok" -> Returns(state)
      [] outcome = "ClientError" -> Returns("None")
      [] OTHER -> Raises(outcome)

\* GlueCrawlerHandler.is_crawler_running
is_crawler_running(outcome, state) ==
    LET r == get_crawler_status(outcome, state) IN
    IF r.raised # "no" THEN Raises(r.raised)
    ELSE Returns(RetBool(r.value = "RUNNING"))

\* GlueCrawlerHandler.is_crawler_completed
is_crawler_completed(outcome, state) ==
    LET r == get_crawler_status(outcome, state) IN
    IF r.raised # "no" THEN Raises(r.raised)
    ELSE Returns(RetBool(r.value = "READY"))

\* the record kept of a GlueCrawlerHandler operation; calls counts the
\* get_crawler requests it made
GlueOp(op, name, outcome, d, calls) ==
    /\ gluecall' = [op |-> op, name |-> name, outcome |-> outcome,
                    observed |-> crawler[name], ret |-> d.value,
                    exc |-> d.raised, calls |-> calls]
    /\ UNCHANGED <<athenaVars, auroraVars, s3Vars>>

\* Glue starts a crawler that is READY and refuses otherwise
StartCrawler(outcome) ==
    /\ outcome = "ok" => crawler["own"] = "READY"
    /\ GlueOp("start_crawler", "own", outcome, start_crawler(outcome), 0)
    /\ crawler' = IF outcome = "ok" THEN [crawler EXCEPT !["own"] = "RUNNING"]
                  ELSE crawler

GetCrawlerStatus(name, outcome) ==
    /\ LET r == get_crawler_status(outcome, crawler[name]) IN
       GlueOp("get_crawler_status", name, outcome,
              IF r.raised # "no" THEN r
              ELSE IF r.value = "None" THEN Returns(RetNone)
              ELSE Returns(RetStr(r.value)), 1)
    /\ UNCHANGED crawler

IsCrawlerRunning(outcome) ==
    /\ GlueOp("is_crawler_running", "own", outcome,
              is_crawler_running(outcome, crawler["own"]), 1)
    /\ UNCHANGED crawler

IsCrawlerCompleted(outcome) ==
    /\ GlueOp("is_crawler_completed", "own", outcome,
              is_crawler_completed(outcome, crawler["own"]), 1)
    /\ UNCHANGED crawler

\* a crawler runs, stops and is ready again; the other crawler is started
\* by someone else
CrawlerAdvance(c) ==
    /\ crawler[c] # "READY" \/ c = "other"
    /\ crawler' = [crawler EXCEPT ![c] =
                       CASE crawler[c] = "READY" -> "RUNNING"
                         [] crawler[c] = "RUNNING" -> "STOPPING"
                         [] OTHER -> "READY"]
    /\ UNCHANGED <<athenaVars, auroraVars, s3Vars, gluecall>>

GlueNext ==
    \/ \E outcome \in Outcomes : StartCrawler(outcome)
    \/ \E name \in Crawlers : \E outcome \in Outcomes :
           GetCrawlerStatus(name, outcome)
    \/ \E outcome \in Outcomes : IsCrawlerRunning(outcome)
    \/ \E outcome \in Outcomes : IsCrawlerCompleted(outcome)
    \/ \E c \in Crawlers : CrawlerAdvance(c)

GlueSpec == Init /\ [][GlueNext]_vars

(* ------------------------------ properties ----------------------------- *)

InCall == pc \in {"submit", "poll", "sleep", "fetch"}

Left == pc \in {"returned", "raised"}

Rejected == remote.call = "start_query_execution" /\ remote.outcome = "ClientError"

PollFailed == remote.call = "get_query_execution" /\ remote.outcome = "ClientError"

\* C1: wait_for_query_to_complete has returned only when the status its last
\* poll observed is SUCCEEDED, FAILED or CANCELLED, and the boolean it
\* returned is true exactly when that status is SUCCEEDED.
C1_WaitReturnsOnTerminal ==
    waitRet # "pending" =>
        /\ polls >= 1
        /\ status \in Terminal
        /\ (waitRet = "True") <=> (status = "SUCCEEDED")

C1_Witness ==
    /\ waitRet = "False"
    /\ status = "CANCELLED"
    /\ polls = 2
    /\ sleeps = 1

\* C2: in every accessor, a submission the engine rejects leaves the
\* execution id absent, the accessor returns its negative result, and the
\* call makes no status poll and no result fetch.
C2_RejectedNoPolling ==
    Rejected =>
        /\ qid = NoneId
        /\ pc = "returned"
        /\ exc = "no"
        /\ ret = Negative(method)
        /\ polls = 0
        /\ fetches = 0

C2_Witness ==
    /\ Rejected
    /\ method = "get_value_stats"
    /\ pc = "returned"
    /\ ret = RetNone

\* C3: get_query_results is called only for an execution the wait observed
\* SUCCEEDED; after FAILED or CANCELLED the accessor returns its negative
\* result without a fetch.
C3_FetchOnlyAfterSucceeded ==
    /\ (pc = "fetch" \/ fetches > 0) =>
           /\ waitRet = "True"
           /\ status = "SUCCEEDED"
           /\ qid \in Created
           /\ exec[qid] = "SUCCEEDED"
    /\ (pc = "returned" /\ status \in {"FAILED", "CANCELLED"}) =>
           /\ fetches = 0
           /\ ret = Negative(method)

C3_Witness ==
    /\ pc = "returned"
    /\ method = "get_fc_firmware"
    /\ fetches = 1
    /\ status = "SUCCEEDED"

\* C4: a client error in a status poll makes get_query_status return None,
\* the wait goes to its sleep without returning, and after the sleep the
\* same execution id is polled again.
C4_PollErrorKeepsPolling ==
    [][ /\ (pc = "poll" /\ pc' # "poll" /\ PollFailed') =>
               /\ status' = "None"
               /\ waitRet' = "pending"
               /\ pc' = "sleep"
               /\ qid' = qid
        /\ pc = "sleep" =>
               (pc' \in {"sleep", "poll"} /\ qid' = qid /\ waitRet' = "pending")
      ]_vars

C4_Witness ==
    /\ pc = "poll"
    /\ status = "None"
    /\ PollFailed
    /\ sleeps >= 1

\* C5 as stated: every call of an accessor, whatever its input, makes
\* exactly one submission.
C5_ExactlyOneSubmission == Left => submits = 1

\* C5 amended: a call makes at most one submission, exactly one when the
\* accessor builds a query (none when get_boot_time / get_flight_data do not
\* recognise file_type or add_partitions has no well-formed entry), and none
\* once the execution id is known, also after FAILED, CANCELLED or a
\* failed poll.
C5_AtMostOneSubmission ==
    /\ submits <= 1
    /\ Left => submits = (IF BuildQuery(method, args) = NoQuery THEN 0 ELSE 1)
    /\ (qid # NoneId \/ polls > 0) => (submits = 1 /\ pc # "submit")

C5_Witness ==
    /\ pc = "returned"
    /\ submits = 1
    /\ status = "FAILED"
    /\ polls = 2

\* C6: execute_query, get_query_status and get_query_results return None on
\* every failure of their remote call, and no exception escapes them.
C6_PrimitivesNeverRaise ==
    (remote.call # "none" /\ remote.outcome # "ok") =>
        /\ pc # "raised"
        /\ exc = "no"
        /\ remote.call = "start_query_execution" => qid = NoneId
        /\ remote.call = "get_query_execution" => status = "None"
        /\ remote.call = "get_query_results" => results = NoResults

\* C7: the wait has no bound on its polls: when the engine never reports a
\* terminal state (the status stays QUEUED/RUNNING or the poll returns
\* None), a wait that has started never returns.
C7_UnboundedWait ==
    [](pc = "poll" =>
          ([](status \notin Terminal /\ exc = "no") => [](pc \in {"poll", "sleep"})))

C7_Witness ==
    /\ pc = "sleep"
    /\ polls = MaxPolls
    /\ sleeps = MaxPolls
    /\ status \in NonTerminal

\* C8: at most one execution of the handler is QUEUED or RUNNING at a time.
C8_OneActiveExecution ==
    Cardinality({i \in Ids : exec[i] \in NonTerminal}) <= 1

\* C9: check_loguid_exists returns True exactly when the query was
\* submitted, SUCCEEDED, and the fetched result set has more than one row.
C9_ExistsIffDataRow ==
    (pc = "returned" /\ method = "check_loguid_exists") =>
        /\ ret.t = "bool"
        /\ ret.v <=> /\ qid # NoneId
                     /\ status = "SUCCEEDED"
                     /\ fetches = 1
                     /\ HasRows(results)
                     /\ Len(results.Rows) > 1

C9_Witness ==
    /\ pc = "returned"
    /\ method = "check_loguid_exists"
    /\ HasRows(results)
    /\ Len(results.Rows) = 1
    /\ ret = RetBool(FALSE)

\* the firmware query SUCCEEDED and row 1 of the result set has 'Data' with
\* more than 4 cells
FirmwareRow ==
    /\ status = "SUCCEEDED"
    /\ fetches = 1
    /\ HasRows(results)
    /\ Len(results.Rows) >= 2
    /\ results.Rows[2].hasData
    /\ Len(results.Rows[2].Data) >= 5

\* C10: get_fc_firmware returns the value of column 4 of row 1 when the query
\* SUCCEEDED and row 1 has more than 4 cells, and None in every other case.
C10_FirmwareColumn ==
    (pc = "returned" /\ method = "get_fc_firmware") =>
        IF FirmwareRow
        THEN /\ ret.t = "str"
             /\ ret.v.row = 1
             /\ ret.v.col = 4
        ELSE ret = RetNone

C10_Witness ==
    /\ pc = "returned"
    /\ method = "get_fc_firmware"
    /\ FirmwareRow
    /\ Len(results.Rows[2].Data) = 5
    /\ ret.t = "str"

\* C11: get_unique_instance and get_value_stats treat row 0 as a header: what
\* they return is built from rows 1..n only, one entry per row and in the order
\* of the rows, no cell of row 0 is in it, and a result set holding only the
\* header row gives no entry (an empty list, respectively None).
C11_HeaderRowSkipped ==
    (pc = "returned" /\ method \in RowIterating /\ HasRows(results)) =>
        LET rows == results.Rows
            n == Len(rows)
        IN IF method = "get_unique_instance"
           THEN /\ ret.t = "list"
                /\ \A k \in 1..Len(ret.v) : ret.v[k].row >= 1 /\ ret.v[k].col = 0
                /\ \A j, k \in 1..Len(ret.v) : j < k => ret.v[j].row < ret.v[k].row
                /\ \A r \in 2..n :
                       (rows[r].hasData /\ Len(rows[r].Data) > 0) =>
                           \E k \in 1..Len(ret.v) :
                               ret.v[k] = rows[r].Data[1].VarCharValue
                /\ n <= 1 => ret.v = << >>
           ELSE IF n <= 1 THEN ret = RetNone
           ELSE /\ ret.t = "dict"
                /\ Cardinality(ret.v) = n - 1
                /\ \A p \in ret.v :
                       /\ p[1].row >= 1
                       /\ p[1] = rows[p[1].row + 1].Data[3].VarCharValue
                       /\ p[2].min = rows[p[1].row + 1].Data[5].VarCharValue
                       /\ p[2].max = rows[p[1].row + 1].Data[6].VarCharValue
                       /\ p[2].avg = rows[p[1].row + 1].Data[7].VarCharValue

\* two data rows after the header, both extracted
C11_Witness ==
    /\ pc = "returned"
    /\ method = "get_unique_instance"
    /\ HasRows(results)
    /\ Len(results.Rows) = 3
    /\ ret.t = "list"
    /\ Len(ret.v) = 2

\* C12: get_boot_time returns the boot time or None and never raises; when
\* the query SUCCEEDED and the result set holds only the header row it
\* returns None.
C12_BootTimeHeaderOnlyIsNone ==
    (/\ method = "get_boot_time"
     /\ Left
     /\ fetches = 1
     /\ HasRows(results)
     /\ Len(results.Rows) = 1) => (pc = "returned" /\ ret = RetNone)

\* the partition paths of a list that have four key=value segments
WellFormed(folder) ==
    LET parts == split(Normalize(folder), "/") IN
    /\ Len(parts) >= 4
    /\ \A k \in 1..4 : \E i \in 1..Len(parts[k]) : parts[k][i] = "="

\* C13: get_add_partition_query never raises; a malformed entry (fewer than
\* four segments, or a segment without '=') is skipped, and every well-formed
\* entry gives exactly one PARTITION clause, in input order, wherever the
\* malformed entries stand in the list.
C13_MalformedSkipped ==
    (method = "add_partitions" /\ pc # "idle") =>
        LET good == SelectSeq(args, WellFormed) IN
        /\ submits = 0 => exc = "no"
        /\ Len(query.partitions) = Len(good)
        /\ \A k \in 1..Len(good) :
               query.partitions[k].location = Normalize(good[k])
        /\ (good = << >>) <=> (query = NoQuery)

\* a malformed entry first, then a well-formed one, which gives the one clause
C13_Witness ==
    /\ method = "add_partitions"
    /\ pc = "submit"
    /\ Len(args) = 2
    /\ ~WellFormed(args[1])
    /\ WellFormed(args[2])
    /\ Len(query.partitions) = 1

\* the operations made of one execute_query or one execute_insert_or_update
\* and no other use of the connection
SingleStatementOps ==
    {"execute_query", "get_uid_by_column_str", "log_exists"} \cup Writers
    \cup FetchOneReaders \cup FetchAllReaders

\* cursor.execute was called for a statement with this outcome
Ran(so) == so \in {"ok", "execute_error"}

Count(so) == IF Ran(so) THEN 1 ELSE 0

\* C14: log_exists never raises; it returns True exactly when the COUNT
\* statement ran and its row reports at least one match, hence False when the
\* hash is absent (count 0) and False when the connection or the statement
\* fails.
C14_LogExistsIffCounted ==
    call.op = "log_exists" =>
        /\ call.exc = "no"
        /\ call.ret.t = "bool"
        /\ call.ret.v <=>
               /\ call.inputs.so = "ok"
               /\ Truthy(call.inputs.result)
               /\ call.inputs.result.data[1] >= 1

\* the statement ran and counted no row with the hash
C14_Witness ==
    /\ call.op = "log_exists"
    /\ call.inputs.so = "ok"
    /\ call.inputs.result = Result(<<0>>)
    /\ call.stmts = 1
    /\ call.ret = RetBool(FALSE)

\* C15: execute_insert_or_update runs one statement in a commit-or-rollback
\* transaction: True iff the statement ran and the commit succeeded, on any
\* failure a rollback and False, and no exception leaves it on any path, a
\* failing rollback included.
C15_CommitOrRollbackNeverRaises ==
    call.op \in Writers =>
        /\ call.exc = "no"
        /\ call.ret.t = "bool"
        /\ call.ret.v <=> (call.inputs.so = "ok" /\ call.inputs.cmo = "ok")

\* C16: the connection is opened on demand only when it is absent: a call
\* that finds none makes exactly one connect attempt and, if that fails, runs
\* no statement and returns None / False; a call that finds one makes no
\* attempt; a failed statement is not run again and neither closes nor reopens
\* the connection.
C16_ConnectOnDemand ==
    call.op \in SingleStatementOps =>
        /\ call.before = "None" => call.connects = 1
        /\ call.before = "open" => call.connects = 0 /\ connection = "open"
        /\ (call.before = "None" /\ connection = "None") =>
               /\ call.stmts = 0
               /\ IF call.op \in Writers THEN call.ret = RetBool(FALSE)
                  ELSE IF call.op = "execute_query" THEN call.ret = NoneResult
                  ELSE IF call.op = "log_exists" THEN call.ret = RetBool(FALSE)
                  ELSE call.ret = RetNone
        /\ call.stmts <= 1
        /\ call.closes = 0

\* no connection, and the one attempt to open it fails
C16_Witness ==
    /\ call.op = "execute_query"
    /\ call.before = "None"
    /\ call.inputs.co = "error"
    /\ call.connects = 1
    /\ call.stmts = 0
    /\ connection = "None"

\* the connections the handler has opened and not closed
Live == (IF connection = "open" THEN 1 ELSE 0) + leaked

\* C17: after any sequence of public operations the handler holds at most
\* one live connection: none is opened while an earlier one is open and
\* unreleased.
C17_AtMostOneLiveConnection == Live <= 1

C19_SecretFetchedOnce == phase = "ready" => secrets = 1

\* C19 as the code has it: get_secret_value is called once at construction
\* and once more by every reconnect(); connect(), the lazy connects and every
\* other operation never call it.
C19_SecretPerConstructionAndReconnect ==
    /\ phase = "new" => secrets = 0
    /\ phase = "ready" => secrets = 1 + reconnects

\* a reconnect() after construction: two get_secret_value calls
C19_Witness ==
    /\ phase = "ready"
    /\ call.op = "reconnect"
    /\ reconnects = 1
    /\ secrets = 2

\* C20: get_aircraft_details_by_log_uid returns the combined dictionary when
\* the three lookups each find a row, None as soon as one finds nothing, and
\* never raises.
C20_DetailsDictOrNone ==
    call.op = "get_aircraft_details_by_log_uid" =>
        /\ call.exc = "no"
        /\ (/\ Found(call.inputs.s1, call.inputs.r1)
            /\ Found(call.inputs.s2, call.inputs.r2)
            /\ Found(call.inputs.s3, call.inputs.r3)) => call.ret.t = "dict"

\* C24: wait_for_query_to_complete polls at a fixed interval: the first poll
\* comes before any sleep, exactly one sleep separates two consecutive polls,
\* and no sleep follows the poll that observed a terminal state, so that a
\* wait that returns after n polls has slept n - 1 times.
C24_SleepBetweenPolls ==
    /\ ahead \in {0, 1}
    /\ pc = "poll" => (ahead = 0 /\ (polls = 0 => sleeps = 0))
    /\ pc = "sleep" => (ahead = 1 /\ status \notin Terminal)
    /\ waitRet # "pending" => (ahead = 1 /\ status \in Terminal)
    /\ polls < MaxPolls => sleeps = polls - ahead

\* a wait that returned after two polls and one sleep
C24_Witness ==
    /\ waitRet # "pending"
    /\ polls = 2
    /\ sleeps = 1
    /\ ahead = 1

\* C25: when the execution has reached a terminal state (where it stays) and
\* the polls do not fail forever, wait_for_query_to_complete returns at some
\* time and so does the accessor that called it.
C25_WaitAndAccessorReturn ==
    /\ (pc \in {"poll", "sleep"} /\ exec[qid] \in Terminal) ~> (waitRet # "pending")
    /\ (pc \in {"poll", "sleep"} /\ exec[qid] \in Terminal) ~> (pc = "returned")

\* the file types the two accessors build a query for
Recognised ==
    IF method = "get_boot_time"
    THEN args \in {<<".", "B", "I", "N">>, <<".", "T", "L", "O", "G">>}
    ELSE lower(args) \in {<<".", "b", "i", "n">>, <<"b", "i", "n">>,
                          <<".", "t", "l", "o", "g">>, <<"t", "l", "o", "g">>}

\* C28: get_boot_time (which accepts exactly ".BIN" and ".TLOG") and
\* get_flight_data (which accepts ".bin", "bin", ".tlog", "tlog" in any case)
\* return None on any other file_type without a remote call: nothing is
\* submitted, polled or fetched.
C28_UnrecognisedNoRemoteCall ==
    (method \in {"get_boot_time", "get_flight_data"} /\ pc # "idle") =>
        IF Recognised THEN query # NoQuery
        ELSE /\ pc = "returned"
             /\ ret = RetNone
             /\ query = NoQuery
             /\ remote = NoCall
             /\ submits = 0
             /\ polls = 0
             /\ fetches = 0

\* get_boot_time called with ".tlog", which only get_flight_data accepts
C28_Witness ==
    /\ method = "get_boot_time"
    /\ args = <<".", "t", "l", "o", "g">>
    /\ pc = "returned"
    /\ submits = 0

\* C29: add_partitions returns False without a remote call when no entry of
\* the list is well formed; otherwise it submits exactly one ALTER TABLE
\* query and returns True exactly when that execution ended SUCCEEDED.
C29_AddPartitions ==
    (method = "add_partitions" /\ pc # "idle") =>
        IF SelectSeq(args, WellFormed) = << >>
        THEN /\ pc = "returned"
             /\ ret = RetBool(FALSE)
             /\ remote = NoCall
             /\ submits = 0
             /\ polls = 0
             /\ fetches = 0
        ELSE /\ query.kind = "alter"
             /\ submits = (IF pc = "submit" THEN 0 ELSE 1)
             /\ fetches = 0
             /\ pc = "returned" =>
                    /\ ret.t = "bool"
                    /\ ret.v <=> (status = "SUCCEEDED")
                    /\ status = "SUCCEEDED" => exec[qid] = "SUCCEEDED"

\* the ALTER TABLE execution succeeded and add_partitions returned True
C29_Witness ==
    /\ method = "add_partitions"
    /\ pc = "returned"
    /\ submits = 1
    /\ status = "SUCCEEDED"
    /\ ret = RetBool(TRUE)

\* C21: get_all_logs_by_aircraft_uid returns a list with one dictionary per
\* row whenever the query returns at least one row, and None only when no row
\* is found or an error occurs.
C21_LogsListPerRow ==
    call.op = "get_all_logs_by_aircraft_uid" =>
        IF call.inputs.so = "ok" /\ Truthy(call.inputs.result)
        THEN /\ call.ret.t = "value"
             /\ Len(call.ret.v) = Len(call.inputs.result.data)
        ELSE call.ret = RetNone

\* the INSERT ran and the row was committed
Inserted == call.inputs.so = "ok" /\ call.inputs.cmo = "ok"

\* C27: insert_to_flighttable releases the connection on every exit path:
\* when it had or obtained one, the connection is closed and self.connection
\* is None on return, with the row id returned and the row committed on
\* success, None returned and nothing committed on a statement or commit
\* error; the next accessor call finds no connection and connects again.
C27_FlightInsertReleasesConnection ==
    /\ [](call.op = "insert_to_flighttable" =>
            /\ call.exc = "no"
            /\ connection = "None"
            /\ IF call.before = "open" \/ call.inputs.co = "ok"
               THEN /\ call.closes = 1
                    /\ call.committed = (IF Inserted THEN 1 ELSE 0)
                    /\ IF Inserted THEN call.ret = RetVal(LastRowId)
                       ELSE call.ret = RetNone
               ELSE /\ call.closes = 0
                    /\ call.stmts = 0
                    /\ call.committed = 0
                    /\ call.ret = RetBool(FALSE))
    /\ [][(call.op = "insert_to_flighttable" /\ call'.op \in SingleStatementOps)
              => (call'.before = "None" /\ call'.connects = 1)]_vars

\* the statement failed on a connection the handler already had
C27_Witness ==
    /\ call.op = "insert_to_flighttable"
    /\ call.before = "open"
    /\ call.inputs.so = "execute_error"
    /\ call.closes = 1
    /\ connection = "None"

\* the S3Handler operations on one object or one listing
SingleObjectOps ==
    {"get_s3_file_metadata", "copy_file_s3_to_s3", "download_file_s3",
     "upload_file_s3", "delete_file_s3", "check_s3_item_exists",
     "list_s3_files"}

\* C22: each single-object S3 operation makes one SDK request and turns
\* every failure of it into a negative return (False, None or an empty list)
\* with no exception leaving it; check_s3_item_exists on a file key returns
\* False on a 404 and on any other client error alike.
C22_SingleCallNoException ==
    s3call.op \in SingleObjectOps =>
        /\ s3call.exc = "no"
        /\ Len(s3call.trace) = 1
        /\ s3call.inputs.outcome # "ok" =>
               CASE s3call.op = "get_s3_file_metadata" -> s3call.ret.t = "None"
                 [] s3call.op = "list_s3_files" ->
                        s3call.ret.t = "list" /\ s3call.ret.v = << >>
                 [] OTHER -> s3call.ret.t = "bool" /\ ~s3call.ret.v
        /\ (s3call.op \notin {"get_s3_file_metadata", "list_s3_files"}
            /\ s3call.inputs.outcome = "ok"
            /\ s3call.op # "check_s3_item_exists") => s3call.ret = RetBool(TRUE)

\* head_object on a file key fails with a client error other than 404
C22_Witness ==
    /\ s3call.op = "check_s3_item_exists"
    /\ s3call.inputs.is_file
    /\ s3call.inputs.outcome = "ClientError"
    /\ s3call.exc = "no"
    /\ s3call.ret.t = "bool"
    /\ ~s3call.ret.v

\* C23: is_crawler_running and is_crawler_completed make one get_crawler
\* call each and return at once: the first is true iff the state observed is
\* RUNNING, the second iff it is READY, both are false when the status call
\* fails, and no state makes both true.
C23_CrawlerPolledOnce ==
    /\ gluecall.op \in {"is_crawler_running", "is_crawler_completed"} =>
           /\ gluecall.exc = "no"
           /\ gluecall.calls = 1
           /\ gluecall.ret.t = "bool"
           /\ gluecall.ret.v <=>
                  /\ gluecall.outcome = "ok"
                  /\ gluecall.observed =
                         (IF gluecall.op = "is_crawler_running"
                          THEN "RUNNING" ELSE "READY")
    /\ \A st \in CrawlerStates :
           ~(/\ is_crawler_running("ok", st).value.v
             /\ is_crawler_completed("ok", st).value.v)

\* C26: upload_unprocessed_s3 never loses the object: the delete of the
\* source is requested only after the copy succeeded; a failed copy is
\* followed by no delete and leaves the source as it was; True is returned
\* iff the copy and the delete both succeeded; an object that was in the
\* source bucket is in at least one of the two buckets on return.
C26_UnprocessedNeverLost ==
    s3call.op = "upload_unprocessed_s3" =>
        LET copied == s3call.inputs.co = "ok" IN
        /\ s3call.exc = "no"
        /\ s3call.trace = (IF copied THEN <<"copy_object", "delete_object">>
                           ELSE <<"copy_object">>)
        /\ ~copied => src_obj = s3call.src_before
        /\ s3call.ret.t = "bool"
        /\ s3call.ret.v <=> (copied /\ s3call.inputs.do = "ok")
        /\ s3call.ret.v => dst_obj
        /\ s3call.src_before => (src_obj \/ dst_obj)

\* the object was moved: copied, then deleted from the source bucket
C26_Witness ==
    /\ s3call.op = "upload_unprocessed_s3"
    /\ s3call.src_before
    /\ s3call.inputs.co = "ok"
    /\ s3call.inputs.do = "ok"
    /\ ~src_obj
    /\ dst_obj

\* C30: upload_directory_s3 returns True iff every file under the directory
\* was uploaded (True for an empty directory); it stops at the first failed
\* upload, returns False, attempts no upload after it and leaves the files
\* already uploaded in the bucket.
C30_DirectoryUploadStopsAtFailure ==
    s3call.op = "upload_directory_s3" =>
        LET outs == s3call.inputs.outs
            n == Len(outs)
            attempts == Len(s3call.trace)
        IN /\ s3call.exc = "no"
           /\ s3call.ret.t = "bool"
           /\ s3call.ret.v <=> (\A i \in 1..n : outs[i] = "ok")
           /\ s3call.ret.v => attempts = n
           /\ ~s3call.ret.v =>
                  /\ attempts \in 1..n
                  /\ outs[attempts] # "ok"
                  /\ \A i \in 1..(attempts - 1) : outs[i] = "ok"
           /\ s3call.files_before \subseteq dir_files
           /\ \A i \in 1..attempts : outs[i] = "ok" => i \in dir_files

\* the first file is uploaded, the upload of the second fails
C30_Witness ==
    /\ s3call.op = "upload_directory_s3"
    /\ Len(s3call.inputs.outs) = 2
    /\ s3call.inputs.outs[1] = "ok"
    /\ s3call.inputs.outs[2] = "ClientError"
    /\ s3call.ret = RetBool(FALSE)
    /\ 1 \in dir_files

====
